---------------------------- MODULE Spec2Model ----------------------------
(***************************************************************************)
(* PHC - Gbagada General Hospital referral system (src/app.py).           *)
(*                                                                         *)
(* The program is a Streamlit script over one Google Sheets worksheet.     *)
(* Every browser session runs the script top to bottom on each             *)
(* interaction; sessions share the worksheet and the st.cache_data cache   *)
(* of load_data and are not coordinated.  A script run is modelled as a    *)
(* sequence of steps, one per call on the worksheet or on the cache, so    *)
(* that the runs of different sessions interleave at exactly those calls.  *)
(***************************************************************************)
EXTENDS Integers, Sequences, FiniteSets, TLC

(***************************************************************************)
(* Bounds of the model.                                                    *)
(***************************************************************************)
\* number of referral ids uuid4 can hand out, so of rows ever appended
MaxRows == 2
\* number of script runs (form submissions, dashboard runs) over all sessions
MaxRuns == 3
\* number of store calls that raise (transport or permission errors) over all runs
MaxFailures == 1

\* the browser sessions
Sessions == {"s1", "s2"}

(***************************************************************************)
(* The worksheet: row 1 is the header row, rows 2.. are the records.       *)
(***************************************************************************)
\* the sheet's header row, in the order row_data is built in
Headers ==
    << "Referral ID", "Patient Name", "Date of Birth", "Gender",
       "Patient Contact", "Referring PHC", "Date/Time of Referral",
       "Diagnosis/Reason for Referral", "Referring Doctor",
       "Gbagada Acknowledged", "Date/Time of Presentation",
       "Acknowledged By", "Gbagada Notes" >>

\* number of columns of a row
NumCols == 13

\* columns of the acknowledgment group
AckCol == 10
PresCol == 11
ByCol == 12
NotesCol == 13

(***************************************************************************)
(* Values the widgets and the clock can produce.                           *)
(***************************************************************************)
Digits == << "0", "1", "2", "3", "4", "5", "6", "7", "8", "9" >>

\* "%02d"-style and "%04d"-style zero padded decimal
Pad2(n) == Digits[((n \div 10) % 10) + 1] \o Digits[(n % 10) + 1]

Pad4(n) == Pad2(n \div 100) \o Pad2(n % 100)

\* date.strftime("%Y-%m-%d")
StrfDate(d) == Pad4(d.year) \o "-" \o Pad2(d.month) \o "-" \o Pad2(d.day)

\* datetime.strftime("%Y-%m-%d %H:%M:%S")
StrfDateTime(t) ==
    StrfDate(t) \o " " \o Pad2(t.hour) \o ":" \o Pad2(t.minute) \o ":" \o Pad2(t.second)

\* st.date_input(value=None) holds no date until one is picked
NoDate == [year |-> 0, month |-> 0, day |-> 0]

\* the readings of datetime.now() the model draws from
Clock == { [year |-> 2024, month |-> 1, day |-> 1, hour |-> 10, minute |-> 0, second |-> 0] }

\* Python truthiness of a str
Truthy(s) == s # ""

\* the filled-in referral form
FullForm ==
    [ patient_name     |-> "Jane Doe",
      patient_dob      |-> [year |-> 1990, month |-> 1, day |-> 1],
      patient_gender   |-> "Female",
      patient_contact  |-> "08012345678",
      referring_phc    |-> "Kosofe PHC",
      referring_doctor |-> "Dr. Ade",
      diagnosis        |-> "Fever" ]

\* the form as the widgets start: text inputs empty, no date, gender "Select"
BlankForm ==
    [ patient_name     |-> "",
      patient_dob      |-> NoDate,
      patient_gender   |-> "Select",
      patient_contact  |-> "",
      referring_phc    |-> "",
      referring_doctor |-> "",
      diagnosis        |-> "" ]

FormFields == DOMAIN FullForm

\* forms a user submits: filled in, with one widget left as it starts, or untouched
FormInputs ==
    {FullForm, BlankForm} \cup { [FullForm EXCEPT ![f] = BlankForm[f]] : f \in FormFields }

\* the acknowledge form as submitted: time_of_presentation (pre-filled with now,
\* editable), acknowledged_by, gbagada_notes
AckInputs ==
    UNION { { [time |-> StrfDateTime(t), by |-> "Nurse A", notes |-> ""],
              [time |-> StrfDateTime(t), by |-> "Nurse B", notes |-> "Stable on arrival"],
              [time |-> StrfDateTime(t), by |-> "", notes |-> "Stable on arrival"],
              [time |-> "", by |-> "Nurse A", notes |-> ""] } : t \in Clock }

\* the ids uuid4 can produce, as str(uuid.uuid4()) prints them
UUIDs ==
    << "6f1c2a9e-0b7d-4c3a-9e21-5d8f0a4b7c11", "a3d94e70-52b8-4f6c-8d1e-09c7b2e6f4a5",
       "c85b17d2-9e04-4a7f-b3c6-2f1d8e5a0b69", "1e7a60c4-d3f9-4b28-a5e0-7c9b4d2f8a36" >>

IdPool == { UUIDs[n] : n \in 1..MaxRows }

(***************************************************************************)
(* State.                                                                  *)
(***************************************************************************)
VARIABLES
    sheet,    \* the worksheet: a sequence of rows, sheet[1] the header row
    cache,    \* the st.cache_data entry of load_data: {} or {the cached table}
    issued,   \* the ids uuid4 has returned so far
    nruns,    \* script runs started so far
    nfail,    \* store calls that have raised so far
    local,    \* per session: the position and the local variables of its script run
    last,     \* history: what the script run that ended last did and reported
    ver,      \* history: store writes made / completed, and the version the cache holds
    wrote,    \* history: <<row, run>> for every cell write an acknowledge flow made
    acks      \* history: the acknowledge flows that passed validation, with their state

vars == << sheet, cache, issued, nruns, nfail, local, last, ver, wrote, acks >>

\* pd.DataFrame([]): the table of a worksheet without records; also a run's
\* data_df before load_data has returned
NoDf == [headers |-> << >>, rows |-> << >>]

NoRow == << >>

NoAckInput == [time |-> "", by |-> "", notes |-> ""]

NoSuccess == << FALSE, FALSE, FALSE, FALSE >>

\* a session between two script runs: a run's locals do not outlive it
IdleLocal ==
    [ pc              |-> "idle",
      run             |-> 0,           \* number of the run
      form            |-> BlankForm,   \* the referral form's widgets as submitted
      row_data        |-> NoRow,       \* the row built by the submit handler
      data_df         |-> NoDf,        \* the table load_data returned
      referral_to_ack |-> "Select a Referral",
      ack_input       |-> NoAckInput,  \* time_of_presentation, acknowledged_by, gbagada_notes
      call            |-> 0,           \* which of the four update calls is running
      referral_ids    |-> << >>,       \* the first column as the running call read it
      row_index       |-> 0,
      col_index       |-> 0,
      success         |-> NoSuccess,   \* success1 .. success4
      orphan          |-> FALSE,       \* load_data is computing into a dropped cache object
      df_ver          |-> 0,           \* history: store version data_df was read at
      start_ver       |-> 0,           \* history: writes completed when load_data was called
      ret_ver         |-> 0,           \* history: writes completed when load_data returned
      my_ver          |-> 0 ]          \* history: store version of this run's latest write

NoLast ==
    [ kind |-> "none", run |-> 0, outcome |-> "none", form |-> BlankForm, row |-> NoRow,
      id |-> "", inp |-> NoAckInput, success |-> NoSuccess ]

Init ==
    /\ sheet = << Headers >>
    /\ cache = {}
    /\ issued = {}
    /\ nruns = 0
    /\ nfail = 0
    /\ local = [s \in Sessions |-> IdleLocal]
    /\ last = NoLast
    /\ ver = [store |-> 0, done |-> 0, cache |-> 0]
    /\ wrote = {}
    /\ acks = {}

(***************************************************************************)
(* Pure helpers.                                                           *)
(***************************************************************************)
\* Python's list.index(x) + 1: the 1-based position of the first x in seq
IndexOf(seq, x) == CHOOSE i \in 1..Len(seq) : seq[i] = x /\ \A j \in 1..(i - 1) : seq[j] # x

\* x in seq
Contains(seq, x) == \E i \in 1..Len(seq) : seq[i] = x

Max(a, b) == IF a >= b THEN a ELSE b

\* worksheet.col_values(1): the first cell of every row, the header row included
ColValues1(sh) == [i \in 1..Len(sh) |-> sh[i][1]]

\* worksheet.row_values(1): the header row
RowValues1(sh) == sh[1]

\* the row taken from the length of the column instead of the match
RowIndexLast(referral_ids, referral_id) == Len(referral_ids)

\* referral_ids.index(referral_id) + 1: the 1-based row of the first match
RowIndex(referral_ids, referral_id) == IndexOf(referral_ids, referral_id)

\* the column index without the "+ 1": one column to the left
ColIndexZeroBased(headers, column_name) == IndexOf(headers, column_name) - 1

\* headers.index(column_name) + 1: the 1-based column of the first match
ColIndex(headers, column_name) == IndexOf(headers, column_name)

\* an update that also puts the row's acknowledged field back to "No" when it
\* writes another column
UpdateCellResetting(sh, r, c, v) ==
    [sh EXCEPT ![r][c] = v, ![r][AckCol] = IF c = AckCol THEN v ELSE "No"]

\* worksheet.update_cell(row, col, value)
UpdateCell(sh, r, c, v) == [sh EXCEPT ![r][c] = v]

\* worksheet.append_row(row): the row goes after the last row
AppendRowTo(sh, row) == Append(sh, row)

\* gspread's numericise, applied by get_all_records to every cell: a cell that
\* reads as an integer comes back as that integer (shown here by its decimal text)
Numericise(v) == IF v = "08012345678" THEN "8012345678" ELSE v

\* worksheet.get_all_records() wrapped in pd.DataFrame: the records keyed by the
\* header row; no records give a DataFrame without columns
GetAllRecords(sh) ==
    IF Len(sh) <= 1
    THEN NoDf
    ELSE [ headers |-> sh[1],
           rows    |-> [i \in 1..(Len(sh) - 1) |-> [c \in 1..Len(sh[i + 1]) |-> Numericise(sh[i + 1][c])]] ]

\* data_df.empty
DfEmpty(df) == Len(df.rows) = 0

\* data_df[column] of row i
Cell(df, i, column) == df.rows[i][IndexOf(df.headers, column)]

\* data_df[data_df["Gbagada Acknowledged"] == "No"], as the positions of its rows
unacknowledged_df(df) == { i \in 1..Len(df.rows) : Cell(df, i, "Gbagada Acknowledged") = "No" }

\* data_df[data_df["Gbagada Acknowledged"] == "Yes"], as the positions of its rows
acknowledged_df(df) == { i \in 1..Len(df.rows) : Cell(df, i, "Gbagada Acknowledged") = "Yes" }

\* unacknowledged_df["Referral ID"].tolist(): the options of the selectbox
PendingIds(df) == { Cell(df, i, "Referral ID") : i \in unacknowledged_df(df) }

\* the dashboard can partition the table: it has rows and the columns it indexes
Partitionable(df) ==
    /\ ~DfEmpty(df)
    /\ Contains(df.headers, "Gbagada Acknowledged")
    /\ Contains(df.headers, "Referral ID")

\* the validation with the diagnosis left out of the list
FormValidNoDiagnosis(f) ==
    /\ Truthy(f.patient_name)
    /\ f.patient_dob # NoDate
    /\ f.patient_gender # "Select"
    /\ Truthy(f.referring_phc)
    /\ Truthy(f.referring_doctor)

\* the submit handler's validation: all([...]) over the required widgets
FormValid(f) ==
    /\ Truthy(f.patient_name)
    /\ f.patient_dob # NoDate
    /\ f.patient_gender # "Select"
    /\ Truthy(f.referring_phc)
    /\ Truthy(f.diagnosis)
    /\ Truthy(f.referring_doctor)

\* the row with the "No" default of Gbagada Acknowledged left empty
RowDataAckEmpty(referral_id, f, referral_datetime) ==
    << referral_id, f.patient_name, StrfDate(f.patient_dob), f.patient_gender, f.patient_contact,
       f.referring_phc, referral_datetime, f.diagnosis, f.referring_doctor, "", "", "", "" >>

\* the row the submit handler builds
RowData(referral_id, f, referral_datetime) ==
    << referral_id,
       f.patient_name,
       StrfDate(f.patient_dob),
       f.patient_gender,
       f.patient_contact,
       f.referring_phc,
       referral_datetime,
       f.diagnosis,
       f.referring_doctor,
       "No",
       "",
       "",
       "" >>

\* an id source that can repeat an id it gave before
uuid4Repeating == IdPool

\* uuid.uuid4(): a random 122-bit id; modelled as any id not handed out before
\* (a repeat has probability about 2^-122 and is not modelled)
uuid4 == IdPool \ issued

\* the validation looking at the time of presentation only
AckValidTimeOnly(inp) == Truthy(inp.time)

\* the acknowledge handler's validation: all([time_of_presentation, acknowledged_by])
AckValid(inp) == Truthy(inp.time) /\ Truthy(inp.by)

\* the calls with the first two columns in the other order
AckColumnReordered(k) ==
    CASE k = 1 -> "Date/Time of Presentation"
      [] k = 2 -> "Gbagada Acknowledged"
      [] k = 3 -> "Acknowledged By"
      [] OTHER -> "Gbagada Notes"

\* the four update_cell_by_referral_id calls of the acknowledge handler, in order
AckColumn(k) ==
    CASE k = 1 -> "Gbagada Acknowledged"
      [] k = 2 -> "Date/Time of Presentation"
      [] k = 3 -> "Acknowledged By"
      [] OTHER -> "Gbagada Notes"

\* the values of the second and third call exchanged
AckValueSwapped(k, inp) ==
    CASE k = 1 -> "Yes"
      [] k = 2 -> inp.by
      [] k = 3 -> inp.time
      [] OTHER -> inp.notes

\* the first call writing a boolean's text instead of "Yes"
AckValueTrue(k, inp) ==
    CASE k = 1 -> "True"
      [] k = 2 -> inp.time
      [] k = 3 -> inp.by
      [] OTHER -> inp.notes

\* the value each of the four calls writes
AckValue(k, inp) ==
    CASE k = 1 -> "Yes"
      [] k = 2 -> inp.time
      [] k = 3 -> inp.by
      [] OTHER -> inp.notes

\* number of update calls the acknowledge handler makes
NumCalls == 4

\* the report looking at success1 only
AckOutcomeFirstOnly(succ) == IF succ[1] THEN "ack_success" ELSE "ack_failed"

\* the report that never says success
AckOutcomeFailed(succ) == "ack_failed"

\* if success1 and success2 and success3 and success4
AckOutcome(succ) ==
    IF succ[1] /\ succ[2] /\ succ[3] /\ succ[4] THEN "ack_success" ELSE "ack_failed"

\* a write that leaves the cache as it is
CacheKept(c) == c

\* st.cache_data.clear(): the cache objects are dropped
CacheClear(c) == {}

\* a load_data that is computing when the cache is cleared stores its result in
\* the dropped cache object, where no later call looks
OrphanAfterClear(loc) ==
    [t \in Sessions |-> [loc[t] EXCEPT !.orphan = @ \/ loc[t].pc = "load_fill"]]

(***************************************************************************)
(* Script runs.                                                            *)
(***************************************************************************)
\* session s starts run number nruns + 1 with locals l
StartRun(s, l) ==
    /\ local[s].pc = "idle"
    /\ nruns < MaxRuns
    /\ nruns' = nruns + 1
    /\ local' = [local EXCEPT ![s] = [l EXCEPT !.run = nruns + 1]]

\* the run of s ends, having reported rep; loc is local after the step's other effects
EndRun(s, loc, rep) ==
    /\ local' = [loc EXCEPT ![s] = IdleLocal]
    /\ last' = rep

\* what a run of the submit handler reports
SubmitReport(l, o) ==
    [NoLast EXCEPT !.kind = "submit", !.run = l.run, !.outcome = o, !.form = l.form, !.row = l.row_data]

\* a store call raises
Raise ==
    /\ nfail < MaxFailures
    /\ nfail' = nfail + 1

Report(kind, r, o) == [NoLast EXCEPT !.kind = kind, !.run = r, !.outcome = o]

(***************************************************************************)
(* Role "Primary Health Care (PHC)": the referral form.                    *)
(***************************************************************************)
\* "Submit Referral" pressed with form f: validation, uuid4, row_data
SubmitReferral(s, f) ==
    /\ local[s].pc = "idle"
    /\ nruns < MaxRuns
    /\ nruns' = nruns + 1
    /\ IF ~FormValid(f)
       THEN /\ last' = [Report("submit", nruns + 1, "validation_error") EXCEPT !.form = f]
            /\ UNCHANGED << local, issued >>
       ELSE \E referral_id \in uuid4, now \in Clock :
                /\ local' = [local EXCEPT ![s] =
                                [IdleLocal EXCEPT !.pc = "append_row", !.run = nruns + 1, !.form = f,
                                                  !.row_data = RowData(referral_id, f, StrfDateTime(now))]]
                /\ issued' = issued \cup {referral_id}
                /\ UNCHANGED last
    /\ UNCHANGED << sheet, cache, nfail, ver, wrote, acks >>

\* append_data: worksheet.append_row, or an exception before the row is written
AppendRow(s) ==
    /\ local[s].pc = "append_row"
    /\ \/ /\ sheet' = AppendRowTo(sheet, local[s].row_data)
          /\ ver' = [ver EXCEPT !.store = ver.store + 1]
          /\ local' = [local EXCEPT ![s].pc = "append_clear", ![s].my_ver = ver.store + 1]
          /\ UNCHANGED << last, nfail >>
       \/ /\ Raise
          /\ EndRun(s, local, SubmitReport(local[s], "submit_failed"))
          /\ UNCHANGED << sheet, ver >>
    /\ UNCHANGED << cache, issued, nruns, wrote, acks >>

\* append_data: st.cache_data.clear() and return True; the handler reports success
AppendClear(s) ==
    /\ local[s].pc = "append_clear"
    /\ cache' = CacheClear(cache)
    /\ ver' = [ver EXCEPT !.done = Max(ver.done, local[s].my_ver)]
    /\ EndRun(s, OrphanAfterClear(local), SubmitReport(local[s], "submitted"))
    /\ UNCHANGED << sheet, issued, nruns, nfail, wrote, acks >>

(***************************************************************************)
(* Role "Gbagada General Hospital": load_data and the dashboard.           *)
(***************************************************************************)
\* load_data served from the cache
LoadHit(s) ==
    /\ cache # {}
    /\ \E df \in cache :
          StartRun(s, [IdleLocal EXCEPT !.pc = "dashboard", !.data_df = df, !.df_ver = ver.cache,
                                        !.start_ver = ver.done, !.ret_ver = ver.done])
    /\ UNCHANGED << sheet, cache, issued, nfail, last, ver, wrote, acks >>

\* load_data on a cache miss: the worksheet is read, or the read raises and the
\* script stops
LoadMiss(s) ==
    /\ cache = {}
    /\ \/ /\ StartRun(s, [IdleLocal EXCEPT !.pc = "load_fill", !.data_df = GetAllRecords(sheet),
                                           !.df_ver = ver.store, !.start_ver = ver.done])
          /\ UNCHANGED << last, nfail >>
       \/ /\ Raise
          /\ local[s].pc = "idle"
          /\ nruns < MaxRuns
          /\ nruns' = nruns + 1
          /\ last' = Report("dashboard", nruns + 1, "load_failed")
          /\ UNCHANGED local
    /\ UNCHANGED << sheet, cache, issued, ver, wrote, acks >>

\* load_data on a cache miss: the result is stored in the cache object the call
\* started with, and returned
LoadFill(s) ==
    /\ local[s].pc = "load_fill"
    /\ IF local[s].orphan
       THEN UNCHANGED << cache, ver >>
       ELSE /\ cache' = {local[s].data_df}
            /\ ver' = [ver EXCEPT !.cache = local[s].df_ver]
    /\ local' = [local EXCEPT ![s].pc = "dashboard", ![s].ret_ver = ver.done, ![s].orphan = FALSE]
    /\ UNCHANGED << sheet, issued, nruns, nfail, last, wrote, acks >>

\* the ttl of the cache entry runs out
CacheExpire ==
    /\ cache # {}
    /\ cache' = {}
    /\ UNCHANGED << sheet, issued, nruns, nfail, local, last, ver, wrote, acks >>

\* the dashboard is rendered and nothing is acknowledged
DashboardView(s) ==
    /\ local[s].pc = "dashboard"
    /\ EndRun(s, local,
              Report("dashboard", local[s].run,
                     IF DfEmpty(local[s].data_df) THEN "no_referrals"
                     ELSE IF ~Partitionable(local[s].data_df) THEN "crashed"
                     ELSE "viewed"))
    /\ UNCHANGED << sheet, cache, issued, nruns, nfail, ver, wrote, acks >>

\* "Acknowledge Arrival" pressed for a pending id of the loaded table; the handler
\* does not read the table again, only the selected id and the form's values
AcknowledgeSubmit(s, id, inp) ==
    /\ local[s].pc = "dashboard"
    /\ Partitionable(local[s].data_df)
    /\ id \in PendingIds(local[s].data_df)
    /\ IF ~AckValid(inp)
       THEN /\ EndRun(s, local, [Report("ack", local[s].run, "warning") EXCEPT !.id = id, !.inp = inp])
            /\ UNCHANGED acks
       ELSE /\ local' = [local EXCEPT ![s] =
                                [IdleLocal EXCEPT !.pc = "upd_lookup", !.run = local[s].run,
                                                  !.referral_to_ack = id, !.ack_input = inp,
                                                  !.call = 1]]
            /\ acks' = acks \cup {[run |-> local[s].run, id |-> id, inp |-> inp, state |-> "running"]}
            /\ UNCHANGED last
    /\ UNCHANGED << sheet, cache, issued, nruns, nfail, ver, wrote >>

(***************************************************************************)
(* update_cell_by_referral_id, call number local[s].call of the handler.   *)
(***************************************************************************)
\* the acknowledge flow of run r ends in state st
AcksEnd(r, st) == { IF a.run = r THEN [a EXCEPT !.state = st] ELSE a : a \in acks }

\* the call returns b: the handler goes on to its next call, or reports;
\* loc is local after the step's other effects
Return(s, loc, b) ==
    LET succ == [loc[s].success EXCEPT ![loc[s].call] = b] IN
    IF loc[s].call < NumCalls
    THEN /\ local' = [loc EXCEPT ![s].success = succ, ![s].call = @ + 1, ![s].pc = "upd_lookup",
                                 ![s].referral_ids = << >>, ![s].row_index = 0,
                                 ![s].col_index = 0]
         /\ UNCHANGED << last, acks >>
    ELSE /\ EndRun(s, loc, [Report("ack", loc[s].run, AckOutcome(succ)) EXCEPT
                                !.id = loc[s].referral_to_ack, !.inp = loc[s].ack_input,
                                !.success = succ])
         /\ acks' = AcksEnd(loc[s].run, AckOutcome(succ))

\* col_values(1) and row_values(1) are read and searched, or a read raises
UpdLookup(s) ==
    /\ local[s].pc = "upd_lookup"
    /\ \/ /\ Contains(ColValues1(sheet), local[s].referral_to_ack)
          /\ Contains(RowValues1(sheet), AckColumn(local[s].call))
          /\ local' = [local EXCEPT
                          ![s].referral_ids = ColValues1(sheet),
                          ![s].row_index = RowIndex(ColValues1(sheet), local[s].referral_to_ack),
                          ![s].col_index = ColIndex(RowValues1(sheet), AckColumn(local[s].call)),
                          ![s].pc = "upd_write"]
          /\ UNCHANGED << last, acks, nfail >>
       \/ /\ ~Contains(ColValues1(sheet), local[s].referral_to_ack)
          /\ Return(s, local, FALSE)
          /\ UNCHANGED nfail
       \/ /\ Contains(ColValues1(sheet), local[s].referral_to_ack)
          /\ ~Contains(RowValues1(sheet), AckColumn(local[s].call))
          /\ Return(s, local, FALSE)
          /\ UNCHANGED nfail
       \/ /\ Raise
          /\ Return(s, local, FALSE)
    /\ UNCHANGED << sheet, cache, issued, nruns, ver, wrote >>

\* worksheet.update_cell, or an exception before the cell is written
UpdWrite(s) ==
    /\ local[s].pc = "upd_write"
    /\ \/ /\ sheet' = UpdateCell(sheet, local[s].row_index, local[s].col_index,
                                 AckValue(local[s].call, local[s].ack_input))
          /\ wrote' = wrote \cup {<< local[s].row_index, local[s].run >>}
          /\ ver' = [ver EXCEPT !.store = ver.store + 1]
          /\ local' = [local EXCEPT ![s].pc = "upd_clear", ![s].my_ver = ver.store + 1]
          /\ UNCHANGED << last, acks, nfail >>
       \/ /\ Raise
          /\ Return(s, local, FALSE)
          /\ UNCHANGED << sheet, wrote, ver >>
    /\ UNCHANGED << cache, issued, nruns >>

\* st.cache_data.clear() and return True
UpdClear(s) ==
    /\ local[s].pc = "upd_clear"
    /\ cache' = CacheClear(cache)
    /\ ver' = [ver EXCEPT !.done = Max(ver.done, local[s].my_ver)]
    /\ Return(s, OrphanAfterClear(local), TRUE)
    /\ UNCHANGED << sheet, issued, nruns, nfail, wrote >>

(***************************************************************************)
(* The program: any session takes the next step of its script run.         *)
(***************************************************************************)
Next ==
    \/ \E s \in Sessions, f \in FormInputs : SubmitReferral(s, f)
    \/ \E s \in Sessions : AppendRow(s)
    \/ \E s \in Sessions : AppendClear(s)
    \/ \E s \in Sessions : LoadHit(s)
    \/ \E s \in Sessions : LoadMiss(s)
    \/ \E s \in Sessions : LoadFill(s)
    \/ CacheExpire
    \/ \E s \in Sessions : DashboardView(s)
    \/ \E s \in Sessions, id \in IdPool, inp \in AckInputs : AcknowledgeSubmit(s, id, inp)
    \/ \E s \in Sessions : UpdLookup(s)
    \/ \E s \in Sessions : UpdWrite(s)
    \/ \E s \in Sessions : UpdClear(s)

Spec == Init /\ [][Next]_vars

\* a script run is a thread that executes the handler to its end: each of the
\* store calls of an update call returns or raises, and the script goes on to its
\* next statement
SpecFair ==
    /\ Spec
    /\ \A s \in Sessions :
          /\ WF_vars(UpdLookup(s))
          /\ WF_vars(UpdWrite(s))
          /\ WF_vars(UpdClear(s))

(***************************************************************************)
(* The store adapter and the acknowledge handler driven directly, as the   *)
(* scenarios of the specification drive them: the handler is started on    *)
(* any referral id, also one that no record of the table has.              *)
(***************************************************************************)
\* ids a caller can pass: those uuid4 produces, and two strings it never produces
AnyIds == IdPool \cup {"Referral ID", "abc-123"}

\* the session that drives the handler directly
Caller == "s1"

\* the acknowledge handler run on id with the form's values inp
AcknowledgeDirect(s, id, inp) ==
    /\ AckValid(inp)
    /\ StartRun(s, [IdleLocal EXCEPT !.pc = "upd_lookup", !.referral_to_ack = id,
                                     !.ack_input = inp, !.call = 1])
    /\ acks' = acks \cup {[run |-> nruns + 1, id |-> id, inp |-> inp, state |-> "running"]}
    /\ UNCHANGED << sheet, cache, issued, nfail, last, ver, wrote >>

NextDirect ==
    \/ \E s \in Sessions : SubmitReferral(s, FullForm)
    \/ \E s \in Sessions : AppendRow(s)
    \/ \E s \in Sessions : AppendClear(s)
    \/ \E id \in AnyIds, inp \in AckInputs : AcknowledgeDirect(Caller, id, inp)
    \/ \E s \in Sessions : UpdLookup(s)
    \/ \E s \in Sessions : UpdWrite(s)
    \/ \E s \in Sessions : UpdClear(s)

SpecDirect == Init /\ [][NextDirect]_vars

(***************************************************************************)
(* Vocabulary of the properties.                                           *)
(***************************************************************************)
\* the rows of the worksheet that hold records
RecordRows == 2..Len(sheet)

\* the referral ids of the records
RecordIds == { sheet[i][1] : i \in RecordRows }

\* the acknowledgment group of a row
Group(row) == << row[AckCol], row[PresCol], row[ByCol], row[NotesCol] >>

GroupDefault == << "No", "", "", "" >>

GroupOf(inp) == << "Yes", inp.time, inp.by, inp.notes >>

\* the runs whose acknowledge flow wrote a cell of row i
Writers(i) == { r \in 1..nruns : << i, r >> \in wrote }

\* session s is inside one of the four update_cell_by_referral_id calls
InUpdate(s) == local[s].pc \in {"upd_lookup", "upd_write", "upd_clear"}

\* session s holds the table load_data returned to it
Loaded(s) == local[s].pc = "dashboard"

\* the claim's condition on a submitted form: a required field is empty, or the
\* gender is the placeholder
RequiredMissing(f) ==
    \/ f.patient_name = ""
    \/ f.patient_dob = NoDate
    \/ f.patient_gender = "Select"
    \/ f.referring_phc = ""
    \/ f.diagnosis = ""
    \/ f.referring_doctor = ""

\* the cell of a row under a header of the worksheet
Under(row, header) == row[IndexOf(Headers, header)]

\* a row of the submit handler has every required field
RowComplete(row) ==
    /\ row[2] # ""
    /\ row[3] # StrfDate(NoDate)
    /\ row[4] # "Select"
    /\ row[6] # ""
    /\ row[8] # ""
    /\ row[9] # ""

(***************************************************************************)
(* C1  Monotonicity.                                                       *)
(***************************************************************************)
\* C1: in every step every record stays in the table, and its acknowledged field
\* either keeps its value or goes from "No" to "Yes"; so once "Yes" it is never
\* "No" again, whatever the sessions do and whichever store calls fail.
C1_Monotonic ==
    [][ \A i \in RecordRows :
           /\ i <= Len(sheet')
           /\ sheet'[i][AckCol] # sheet[i][AckCol]
                 => (sheet[i][AckCol] = "No" /\ sheet'[i][AckCol] = "Yes") ]_vars

\* a record is "Yes" after two acknowledge flows have written cells of it
C1_Witness ==
    \E i \in RecordRows : sheet[i][AckCol] = "Yes" /\ Cardinality(Writers(i)) = 2

(***************************************************************************)
(* C2  Atomic acknowledgment group.                                        *)
(***************************************************************************)
\* C2 as claimed: in every state every record's group is all defaults or is
\* "Yes" with the three values of one acknowledge flow on that record.
C2_AtomicGroup ==
    \A i \in RecordRows :
        \/ Group(sheet[i]) = GroupDefault
        \/ \E a \in acks : a.id = sheet[i][1] /\ Group(sheet[i]) = GroupOf(a.inp)

\* C2 amended: a record's group is all defaults as long as no acknowledge flow has
\* written a cell of it, and is "Yes" with the three values of one flow once that
\* flow has ended with all four calls successful and no other flow has written a
\* cell of the record.
C2_GroupOfOneFlow ==
    \A i \in RecordRows :
        /\ Writers(i) = {} => Group(sheet[i]) = GroupDefault
        /\ \A a \in acks :
              (a.state = "ack_success" /\ Writers(i) = {a.run}) => Group(sheet[i]) = GroupOf(a.inp)

\* a flow has ended with success on a record that no other flow has written
C2_Witness ==
    \E i \in RecordRows, a \in acks :
        a.state = "ack_success" /\ Writers(i) = {a.run} /\ a.inp.notes # ""

(***************************************************************************)
(* C3  Cache invalidation.                                                 *)
(***************************************************************************)
\* C3 as claimed: a load_data that returns after a write has completed returns a
\* table read from the store at or after that write.
C3_ReturnsAfterWrite ==
    \A s \in Sessions : Loaded(s) => local[s].df_ver >= local[s].ret_ver

\* C3 amended: a load_data that is called after a write has completed returns a
\* table read from the store at or after that write.
C3_CalledAfterWrite ==
    \A s \in Sessions : Loaded(s) => local[s].df_ver >= local[s].start_ver

\* a load_data called after a completed write has returned
C3_Witness ==
    \E s \in Sessions : Loaded(s) /\ local[s].start_ver >= 1 /\ ~DfEmpty(local[s].data_df)

(***************************************************************************)
(* C4  Stop on failure.                                                    *)
(***************************************************************************)
\* C4: a session is inside an update call of the acknowledge flow only if every
\* earlier call of that flow succeeded (after a failed call no further call is
\* issued).
C4_StopOnFailure ==
    \A s \in Sessions :
        InUpdate(s) => \A j \in 1..(local[s].call - 1) : local[s].success[j]

(***************************************************************************)
(* C5  Unknown id.                                                         *)
(***************************************************************************)
\* C5: an acknowledge flow whose referral id is the id of no record has every
\* update call fail, writes no cell and reports failure.
C5_UnknownIdFails ==
    /\ \A s \in Sessions :
          (InUpdate(s) /\ local[s].referral_to_ack \notin RecordIds)
             => /\ local[s].pc = "upd_lookup"
                /\ \A j \in 1..(local[s].call - 1) : ~local[s].success[j]
    /\ (last.kind = "ack" /\ last.outcome \in {"ack_success", "ack_failed"} /\ last.id \notin RecordIds)
          => /\ last.outcome = "ack_failed"
             /\ \A i \in 1..Len(sheet) : << i, last.run >> \notin wrote

(***************************************************************************)
(* C6  Submit validation.                                                  *)
(***************************************************************************)
\* C6: a submission that ends with a required field missing has built no row,
\* reports a validation error and leaves the worksheet and every session as they
\* were (no append is started); and no row that misses a required field is ever
\* handed to append_data or found in the worksheet, so a submission with a
\* required field missing can only end that way.
C6_SubmitValidation ==
    [][ /\ (last' # last /\ last'.kind = "submit" /\ RequiredMissing(last'.form))
           => /\ last'.outcome = "validation_error"
              /\ last'.row = NoRow
              /\ sheet' = sheet
              /\ local' = local
        /\ \A s \in Sessions : local'[s].row_data # NoRow => RowComplete(local'[s].row_data)
        /\ \A i \in 2..Len(sheet') : RowComplete(sheet'[i]) ]_vars

\* a form without diagnosis was refused while the worksheet held a record
C6_Witness ==
    /\ last.kind = "submit"
    /\ last.outcome = "validation_error"
    /\ last.form = [FullForm EXCEPT !.diagnosis = ""]
    /\ Len(sheet) > 1

(***************************************************************************)
(* C7  Submit result.                                                      *)
(***************************************************************************)
\* C7: the append of a submission adds exactly one row after the rows that were
\* there and changes no other row; the row has 13 fields, each under the header
\* it belongs to (the date of birth as YYYY-MM-DD), the 10th "No" and the 11th to
\* 13th empty; a submission is reported successful only after that append, with
\* its row in the worksheet.
C7_SubmitResult ==
    [][ /\ \A s \in Sessions :
              (local[s].pc = "append_row" /\ local'[s].pc = "append_clear")
                 => LET row == sheet'[Len(sheet')]
                        f == local[s].form
                    IN  /\ Len(sheet') = Len(sheet) + 1
                        /\ SubSeq(sheet', 1, Len(sheet)) = sheet
                        /\ Len(row) = NumCols
                        /\ Len(row) = Len(Headers)
                        /\ Under(row, "Referral ID") \in IdPool
                        /\ Under(row, "Patient Name") = f.patient_name
                        /\ f.patient_dob = [year |-> 1990, month |-> 1, day |-> 1]
                              => Under(row, "Date of Birth") = "1990-01-01"
                        /\ Under(row, "Gender") = f.patient_gender
                        /\ Under(row, "Patient Contact") = f.patient_contact
                        /\ Under(row, "Referring PHC") = f.referring_phc
                        /\ Under(row, "Date/Time of Referral") = "2024-01-01 10:00:00"
                        /\ Under(row, "Diagnosis/Reason for Referral") = f.diagnosis
                        /\ Under(row, "Referring Doctor") = f.referring_doctor
                        /\ row[10] = "No"
                        /\ row[11] = "" /\ row[12] = "" /\ row[13] = ""
        /\ (last' # last /\ last'.outcome = "submitted")
              => /\ sheet' = sheet
                 /\ \E s \in Sessions : local[s].pc = "append_clear" /\ local[s].run = last'.run
                 /\ Cardinality({ i \in RecordRows : sheet[i][1] = last'.row[1] }) = 1 ]_vars

\* a submission has succeeded as the second record of the worksheet
C7_Witness ==
    /\ last.kind = "submit"
    /\ last.outcome = "submitted"
    /\ Len(sheet) = 3
    /\ sheet[3][1] = last.row[1]

(***************************************************************************)
(* C8  Success reporting.                                                  *)
(***************************************************************************)
\* C8: an acknowledge flow that made its four calls reports success exactly when
\* all four returned True, and failure otherwise.
C8_SuccessIffAll ==
    (last.kind = "ack" /\ last.outcome # "warning")
       => /\ last.outcome \in {"ack_success", "ack_failed"}
          /\ last.outcome = "ack_success" <=> (\A k \in 1..NumCalls : last.success[k])

\* a flow reported failure after three calls succeeded and the last one failed
C8_Witness ==
    /\ last.kind = "ack"
    /\ last.outcome = "ack_failed"
    /\ last.success = << TRUE, TRUE, TRUE, FALSE >>

(***************************************************************************)
(* C9  Partition.                                                          *)
(***************************************************************************)
\* C9: every record of a table load_data returned is in exactly one of the pending
\* set and the acknowledged set.
C9_Partition ==
    \A s \in Sessions :
        (Loaded(s) /\ ~DfEmpty(local[s].data_df))
           => /\ Partitionable(local[s].data_df)
              /\ \A i \in 1..Len(local[s].data_df.rows) :
                    (i \in unacknowledged_df(local[s].data_df))
                       # (i \in acknowledged_df(local[s].data_df))

\* a loaded table has an acknowledged record
C9_Witness ==
    \E s \in Sessions :
        /\ Loaded(s)
        /\ Partitionable(local[s].data_df)
        /\ acknowledged_df(local[s].data_df) # {}

(***************************************************************************)
(* C10  Id uniqueness.                                                     *)
(***************************************************************************)
\* C10: no two records have the same referral id, and the id of a row about to be
\* appended is the id of no record (uuid4 taken as never repeating an id).
C10_UniqueIds ==
    /\ \A i, j \in RecordRows : i # j => sheet[i][1] # sheet[j][1]
    /\ \A s \in Sessions :
          local[s].pc = "append_row" => local[s].row_data[1] \notin RecordIds

\* two sessions have each submitted a record
C10_Witness ==
    /\ Len(sheet) = 3
    /\ \E s \in Sessions : local[s].pc = "append_clear"

(***************************************************************************)
(* C11  Acknowledged once.                                                 *)
(***************************************************************************)
\* C11: the cells of a record are written by at most one execution of the
\* acknowledge flow; a flow never writes a record that another flow has written,
\* also when two sessions loaded the record as pending before either wrote it.
C11_AcknowledgedOnce ==
    \A i \in RecordRows : Cardinality(Writers(i)) <= 1

(***************************************************************************)
(* C12  Empty until acknowledged.                                          *)
(***************************************************************************)
\* C12: in every state a record whose acknowledged field is "No" has an empty
\* presentation time, acknowledged-by and notes, also after an acknowledge flow
\* whose update of the acknowledged field failed.
C12_EmptyUntilAcknowledged ==
    \A i \in RecordRows :
        sheet[i][AckCol] = "No"
           => /\ sheet[i][PresCol] = ""
              /\ sheet[i][ByCol] = ""
              /\ sheet[i][NotesCol] = ""

(***************************************************************************)
(* C13  No rollback.                                                       *)
(***************************************************************************)
\* the column the k-th update call of the acknowledge handler writes
AckCell(k) == IndexOf(Headers, AckColumn(k))

\* C13: no step of an acknowledge flow changes, in any row, a cell of a column
\* that an earlier call of the same flow wrote successfully (no compensating
\* write); and a flow that ends with a failed call reports failure without
\* touching the worksheet, so that on a record which only this flow wrote the
\* cells of its successful calls hold the submitted values and the cells of its
\* failed calls still hold their defaults.
C13_NoRollback ==
    [][ /\ \A s \in Sessions :
              (InUpdate(s) /\ local'[s] # local[s])
                 => \A k \in 1..(local[s].call - 1) :
                       local[s].success[k]
                          => \A i \in RecordRows : sheet'[i][AckCell(k)] = sheet[i][AckCell(k)]
        /\ (last' # last /\ last'.kind = "ack" /\ \E k \in 1..NumCalls : ~last'.success[k]
               /\ last'.outcome # "warning")
              => /\ last'.outcome = "ack_failed"
                 /\ sheet' = sheet
                 /\ \A i \in RecordRows :
                       Writers(i) = {last'.run}
                          => \A k \in 1..NumCalls :
                                sheet'[i][AckCell(k)] =
                                   IF last'.success[k] THEN AckValue(k, last'.inp)
                                                       ELSE GroupDefault[k] ]_vars

\* a flow has reported failure and left its record marked "Yes" without the notes
\* it was given: the first call succeeded, the fourth failed
C13_Witness ==
    /\ last.kind = "ack"
    /\ last.outcome = "ack_failed"
    /\ last.success[1] /\ ~last.success[4]
    /\ last.inp.notes # ""
    /\ \E i \in RecordRows :
          /\ sheet[i][1] = last.id
          /\ sheet[i][AckCol] = "Yes"
          /\ sheet[i][NotesCol] = ""

(***************************************************************************)
(* C14  Acknowledge validation.                                            *)
(***************************************************************************)
\* C14: an acknowledge form submitted with an empty presentation time or an empty
\* acknowledged-by ends with a warning, leaves the worksheet as it was and starts
\* no update call (no session is ever inside an update call with such values, and
\* no cell write is ever made by such a run); a submission is turned away with the
\* warning only for one of these two, so empty notes alone do not prevent it.
C14_AckValidation ==
    [][ /\ (last' # last /\ last'.kind = "ack"
               /\ (last'.inp.time = "" \/ last'.inp.by = ""))
              => /\ last'.outcome = "warning"
                 /\ sheet' = sheet
                 /\ wrote' = wrote
                 /\ acks' = acks
                 /\ \A s \in Sessions : ~(InUpdate(s)' /\ local'[s].run = last'.run)
                 /\ \A i \in 1..Len(sheet) : << i, last'.run >> \notin wrote
        /\ \A s \in Sessions :
              InUpdate(s)' => (local'[s].ack_input.time # "" /\ local'[s].ack_input.by # "")
        /\ (last' # last /\ last'.kind = "ack" /\ last'.outcome = "warning")
              => (last'.inp.time = "" \/ last'.inp.by = "")
        /\ \A s \in Sessions :
              (local[s].pc = "dashboard" /\ local'[s].pc = "upd_lookup")
                 => /\ sheet' = sheet
                    /\ local'[s].call = 1 ]_vars

\* a form without acknowledged-by was turned away while its record was still
\* pending, and a flow with empty notes has ended with success
C14_Witness ==
    /\ last.kind = "ack"
    /\ last.outcome = "warning"
    /\ last.inp.by = ""
    /\ last.inp.time # ""
    /\ \E a \in acks : a.inp.notes = "" /\ a.state = "ack_success"

(***************************************************************************)
(* C15  Update sequence.                                                   *)
(***************************************************************************)
\* the four updates the claim names, in its order: column and value
ClaimedSequence(inp) ==
    << << "Gbagada Acknowledged", "Yes" >>,
       << "Date/Time of Presentation", inp.time >>,
       << "Acknowledged By", inp.by >>,
       << "Gbagada Notes", inp.notes >> >>

\* C15: an acknowledge flow starts, from the form with valid values, at its first
\* call, on an id that is pending in the table load_data returned to this run;
\* it keeps that id and those values, goes through its calls one by one and ends,
\* with its report, only after the fourth; the write of its k-th call puts the
\* k-th value of the claimed sequence under the k-th column of that sequence in
\* the row of the selected id, and changes nothing else.
C15_UpdateSequence ==
    [][ \A s \in Sessions :
           LET l == local[s]
               m == local'[s]
           IN  /\ (~InUpdate(s) /\ InUpdate(s)')
                     => /\ l.pc = "dashboard"
                        /\ m.pc = "upd_lookup"
                        /\ m.call = 1
                        /\ m.run = l.run
                        /\ m.ack_input.time # "" /\ m.ack_input.by # ""
                        /\ m.referral_to_ack \in PendingIds(l.data_df)
                        /\ \E i \in 1..Len(l.data_df.rows) :
                              /\ l.data_df.rows[i][1] = m.referral_to_ack
                              /\ l.data_df.rows[i][10] = "No"
               /\ (InUpdate(s) /\ InUpdate(s)')
                     => /\ m.referral_to_ack = l.referral_to_ack
                        /\ m.ack_input = l.ack_input
                        /\ m.run = l.run
                        /\ m.call \in {l.call, l.call + 1}
                        /\ m.call = l.call + 1 => m.pc = "upd_lookup"
                        /\ m.call \in 1..4
               /\ (InUpdate(s) /\ ~InUpdate(s)')
                     => /\ l.call = 4
                        /\ last'.kind = "ack"
                        /\ last'.run = l.run
                        /\ last'.id = l.referral_to_ack
                        /\ last'.inp = l.ack_input
               /\ (l.pc = "upd_write" /\ m.pc = "upd_clear")
                     => \E i \in RecordRows :
                           /\ sheet[i][1] = l.referral_to_ack
                           /\ sheet' = [sheet EXCEPT
                                           ![i][IndexOf(Headers, ClaimedSequence(l.ack_input)[l.call][1])] =
                                               ClaimedSequence(l.ack_input)[l.call][2]]
               /\ (InUpdate(s) /\ m # l /\ ~(l.pc = "upd_write" /\ m.pc = "upd_clear"))
                     => sheet' = sheet ]_vars

\* a flow on the second record of the worksheet has made its four calls and left
\* the record with "Yes" and its three values
C15_Witness ==
    /\ last.kind = "ack"
    /\ last.outcome = "ack_success"
    /\ last.inp.notes # ""
    /\ Len(sheet) = 3
    /\ sheet[3][1] = last.id
    /\ Group(sheet[3]) = GroupOf(last.inp)
    /\ Group(sheet[2]) = GroupDefault

(***************************************************************************)
(* C16  Frame of acknowledgment.                                           *)
(***************************************************************************)
\* C16: a step of an update call of the acknowledge flow keeps the number of
\* rows, and a cell it changes is the cell under the call's column in the row
\* whose first cell is the flow's referral id: no cell of another row and none of
\* the first nine cells of any row changes, also when rows were appended after
\* the call read the first column. In no step of the program does the worksheet
\* lose a row.
C16_Frame ==
    [][ /\ Len(sheet') >= Len(sheet)
        /\ \A s \in Sessions :
              (InUpdate(s) /\ local'[s] # local[s])
                 => /\ Len(sheet') = Len(sheet)
                    /\ \A i \in 1..Len(sheet) :
                          /\ Len(sheet'[i]) = Len(sheet[i])
                          /\ \A c \in 1..Len(sheet[i]) :
                                sheet'[i][c] # sheet[i][c]
                                   => /\ sheet[i][1] = local[s].referral_to_ack
                                      /\ sheet[1][c] = AckColumn(local[s].call)
                                      /\ c > 9
                          /\ SubSeq(sheet'[i], 1, 9) = SubSeq(sheet[i], 1, 9) ]_vars

\* a call has written its cell in the second row after a third row was appended
\* between its read of the first column and its write
C16_Witness ==
    \E s \in Sessions :
        /\ local[s].pc = "upd_clear"
        /\ Len(local[s].referral_ids) = 2
        /\ Len(sheet) = 3
        /\ sheet[2][AckCol] = "Yes"
        /\ Group(sheet[3]) = GroupDefault

(***************************************************************************)
(* C17  Acknowledgment completes.                                          *)
(***************************************************************************)
\* the step is the return of the running update call of session s with this result
Returns(s, b) ==
    /\ InUpdate(s)
    /\ \/ local'[s].call = local[s].call + 1 /\ local'[s].success[local[s].call] = b
       \/ /\ ~InUpdate(s)'
          /\ last'.kind = "ack" /\ last'.run = local[s].run
          /\ last'.success[local[s].call] = b

\* the ids of the acknowledged set of a table
AcknowledgedIds(df) == { Cell(df, i, "Referral ID") : i \in acknowledged_df(df) }

\* C17: an acknowledge flow that has started (on a pending id of its table, with
\* valid values) eventually makes its report; an update call of it returns False
\* only in a step in which a store call raises, and the report is success when
\* no call returned False, so without a failing store call the flow eventually
\* reports success; whenever a flow has reported success and no other flow has
\* written its record, the record is "Yes" with the three submitted values; and
\* every load_data called after a flow has reported success returns a table with
\* the flow's record in the acknowledged set and not in the pending set.
C17_Completes ==
    /\ \A s \in Sessions : InUpdate(s) ~> (local[s].pc = "idle" /\ last.kind = "ack")
    /\ [][ \A s \in Sessions :
              /\ Returns(s, FALSE) => nfail' = nfail + 1
              /\ (InUpdate(s) /\ ~InUpdate(s)')
                    => /\ local'[s].pc = "idle"
                       /\ last'.kind = "ack" /\ last'.run = local[s].run
                       /\ (\A k \in 1..4 : last'.success[k]) => last'.outcome = "ack_success"
                       /\ \E a \in acks' : a.run = last'.run /\ a.id = last'.id
                                               /\ a.inp = last'.inp /\ a.state = last'.outcome ]_vars
    /\ [](\A a \in acks, i \in RecordRows :
             (a.state = "ack_success" /\ sheet[i][1] = a.id /\ Writers(i) \subseteq {a.run})
                => /\ sheet[i][AckCol] = "Yes"
                   /\ sheet[i][PresCol] = a.inp.time
                   /\ sheet[i][ByCol] = a.inp.by
                   /\ sheet[i][NotesCol] = a.inp.notes)
    /\ [][ \A s \in Sessions, a \in acks :
              (a.state = "ack_success" /\ local[s].pc = "idle"
                  /\ local'[s].pc \in {"load_fill", "dashboard"})
                 => /\ a.id \in AcknowledgedIds(local'[s].data_df)
                    /\ a.id \notin PendingIds(local'[s].data_df) ]_vars
    /\ [][ \A s \in Sessions :
              (local[s].pc = "load_fill" /\ local'[s].pc = "dashboard")
                 => local'[s].data_df = local[s].data_df ]_vars

\* without any failed store call a flow has reported success, and a load_data
\* called after that has returned a table with the record in its acknowledged set
C17_Witness ==
    \E a \in acks, s \in Sessions :
        /\ a.state = "ack_success"
        /\ nfail = 0
        /\ Loaded(s)
        /\ local[s].run > a.run
        /\ a.id \in AcknowledgedIds(local[s].data_df)

=============================================================================
